---- MODULE Spec2Model ----
(***************************************************************************)
(* Model of the calendar-event pipeline of desilo-core:                    *)
(*   - the invite dispatch of CalendarEventRenderer (bulk,                 *)
(*     handleAddAllToCalendar) and CalendarButton (single,                 *)
(*     handleAddToCalendar), as one React component instance whose hook    *)
(*     state, committed render, in-flight fetch promises and reported      *)
(*     outcomes are the state;                                             *)
(*   - the text functions of utils/parseEvents (stripEventBlocks,          *)
(*     parseEventsFromContent), computed on sequences of characters.       *)
(***************************************************************************)
EXTENDS Integers, Sequences, FiniteSets, TLC

VARIABLES
    component,       \* which component this instance is
    events,          \* events.length of the renderer (1 for a button)
    localStorage,    \* the value stored under 'calendarEmail'
    mounted,         \* the mount effect (useEffect(..., [])) has run
    email,           \* useState: email
    isValid,         \* useState: isValid
    isAdding,        \* useState: isAdding
    showEmailInput,  \* useState: showBulkEmailInput / showEmailInput
    rendered,        \* the hook values of the committed render (what handlers close over)
    pc,              \* position of the async handler: "idle" or "awaiting"
    dispatchEmail,   \* the email the running handler closed over
    calls,           \* the fetch promises of the latest accepted dispatch
    reports,         \* the calls made to onAddToCalendar for the latest accepted dispatch
    uncaught,        \* an exception left the handler
    triggers,        \* number of handler invocations so far
    lastTrigger,     \* what the latest handler invocation did
    content,         \* input text of the text functions
    textOp,          \* which text function has been applied
    stripped,        \* stripEventBlocks(content)
    strippedTwice,   \* stripEventBlocks(stripEventBlocks(content))
    parsed,          \* parseEventsFromContent(content)
    dateStr,         \* the date given to formatDateTime
    timeStr,         \* the time given to formatDateTime
    today,           \* the local calendar date of new Date()
    timeOp,          \* whether formatDateTime has been applied
    instant          \* formatDateTime(dateStr, timeStr)

dispatchVars == <<component, events, localStorage, mounted, email, isValid, isAdding,
                  showEmailInput, rendered, pc, dispatchEmail, calls, reports,
                  uncaught, triggers, lastTrigger>>
textVars == <<content, textOp, stripped, strippedTwice, parsed>>
timeVars == <<dateStr, timeStr, today, timeOp, instant>>
vars == <<dispatchVars, textVars, timeVars>>

----------------------------------------------------------------------------
(* Bounds *)

MaxEvents == 3
MaxTriggers == 3

----------------------------------------------------------------------------
(* Characters *)

Whitespace == {" ", "\n", "\t", "\r"}
LineTerminators == {"\n", "\r"}

\* localStorage.getItem returns null when the key is absent
NoEmail == <<"null">>

GoodEmail == <<"a", "@", "b", ".", "c">>
OtherEmail == <<"x", ".", "y", "@", "b", ".", "c", "o">>
NotAnEmail == <<"n", "o", "t", "-", "a", "n", "-", "e", "m", "a", "i", "l">>
NoDotEmail == <<"a", "@", "b">>
SpaceEmail == <<"a", " ", "@", "b", ".", "c">>
EmptyEmail == <<>>

TypedEmails == {GoodEmail, OtherEmail, NotAnEmail, SpaceEmail}
StoredEmails == {NoEmail, GoodEmail, NoDotEmail, EmptyEmail}

----------------------------------------------------------------------------
(* validateEmail: /^[^\s@]+@[^\s@]+\.[^\s@]+$/ *)

EmailChar(c) == c \notin Whitespace /\ c # "@"

validateEmail(value) ==
    \E i \in 1..Len(value) : \E j \in 1..Len(value) :
        /\ 1 < i /\ i + 1 < j /\ j < Len(value)
        /\ value[i] = "@"
        /\ value[j] = "."
        /\ \A k \in 1..Len(value) : k # i => EmailChar(value[k])

----------------------------------------------------------------------------
(* The component instance *)

Renderer == "CalendarEventRenderer"
Button == "CalendarButton"

HookState(e, v, a, s) ==
    [email |-> e, isValid |-> v, isAdding |-> a, showEmailInput |-> s]

\* A render triggered by a discrete event commits the updates that event made;
\* an update still pending from the mount effect or from an async continuation
\* is committed with it or by a later render.
Commit(touched) ==
    \E full \in BOOLEAN :
        rendered' =
            [email |-> IF full \/ "email" \in touched THEN email' ELSE rendered.email,
             isValid |-> IF full \/ "isValid" \in touched THEN isValid' ELSE rendered.isValid,
             isAdding |-> IF full \/ "isAdding" \in touched THEN isAdding' ELSE rendered.isAdding,
             showEmailInput |-> IF full \/ "showEmailInput" \in touched
                                THEN showEmailInput' ELSE rendered.showEmailInput]

\* The component renders its own controls: the renderer only for more than one event
UiShown ==
    /\ mounted
    /\ (component = Button \/ events > 1)

NumCalls == IF component = Button THEN 1 ELSE events

\* events.map((event) => fetch(...)): one pending promise per event
IssueCalls(n) == [i \in 1..n |-> [status |-> "pending", ok |-> FALSE, sends |-> 1]]

\* the fetch promise of one call settles: fulfilled with response.ok = ok, or rejected
SettleCallRetry(call, st, ok) ==
    IF (st = "rejected" \/ ~ok) /\ call.sends < 2
    THEN [call EXCEPT !.sends = @ + 1]
    ELSE [status |-> st, ok |-> (st = "fulfilled" /\ ok), sends |-> call.sends]

SettleCall(call, st, ok) ==
    [status |-> st, ok |-> (st = "fulfilled" /\ ok), sends |-> call.sends]

\* Promise.allSettled resolves once no promise is pending
AllSettledFirstRejection(cs) ==
    \/ \A i \in DOMAIN cs : cs[i].status # "pending"
    \/ \E i \in DOMAIN cs : cs[i].status = "rejected"

AllSettled(cs) == \A i \in DOMAIN cs : cs[i].status # "pending"

\* results.filter((r) => r.status === 'fulfilled').length
Succeeded(cs) == Cardinality({i \in DOMAIN cs : cs[i].status = "fulfilled"})

BulkSuccessMessage(n, em) ==
    [n |-> n,
     text |-> IF n > 1 THEN "calendar invites sent to" ELSE "calendar invite sent to",
     to |-> em]
BulkFailureMessage ==
    [n |-> 0, text |-> "Failed to add events to calendar. Please try again.", to |-> <<>>]
SingleSuccessMessage(em) ==
    [n |-> 0, text |-> "Calendar invite sent to", to |-> em]
SingleFailureMessage ==
    [n |-> 0, text |-> "Failed to add to calendar. Please try again.", to |-> <<>>]

\* if (!isValid || isAdding || events.length === 0) return;
BulkGuardNoAdding(r, n) == ~r.isValid \/ n = 0
BulkGuardReturns(r, n) == ~r.isValid \/ r.isAdding \/ n = 0

\* if (!isValid || isAdding) return;
SingleGuardReturns(r) == ~r.isValid \/ r.isAdding

\* the body of handleAddAllToCalendar after the await: try / catch / finally
BulkCompletion(cs, em) ==
    IF Succeeded(cs) > 0
    THEN [report |-> [success |-> TRUE, message |-> BulkSuccessMessage(Succeeded(cs), em)],
          hide |-> TRUE, escaped |-> FALSE]
    ELSE [report |-> [success |-> FALSE, message |-> BulkFailureMessage],
          hide |-> FALSE, escaped |-> FALSE]

\* the body of handleAddToCalendar after the await: try / catch / finally
SingleCompletionNoOkCheck(call, em) ==
    IF call.status = "fulfilled"
    THEN [report |-> [success |-> TRUE, message |-> SingleSuccessMessage(em)],
          hide |-> TRUE, escaped |-> FALSE]
    ELSE [report |-> [success |-> FALSE, message |-> SingleFailureMessage],
          hide |-> FALSE, escaped |-> FALSE]

SingleCompletion(call, em) ==
    IF call.status = "fulfilled" /\ call.ok
    THEN [report |-> [success |-> TRUE, message |-> SingleSuccessMessage(em)],
          hide |-> TRUE, escaped |-> FALSE]
    ELSE [report |-> [success |-> FALSE, message |-> SingleFailureMessage],
          hide |-> FALSE, escaped |-> FALSE]

----------------------------------------------------------------------------
(* Actions of the component *)

\* useEffect(() => {...}, [])
LoadedValidUnchecked(saved) == TRUE
LoadedValid(saved) == validateEmail(saved)

Mount ==
    /\ ~mounted
    /\ mounted' = TRUE
    /\ IF localStorage # NoEmail /\ localStorage # <<>>
       THEN /\ email' = localStorage
            /\ isValid' = LoadedValid(localStorage)
       ELSE UNCHANGED <<email, isValid>>
    /\ UNCHANGED <<component, events, localStorage, isAdding, showEmailInput, rendered,
                   pc, dispatchEmail, calls, reports, uncaught, triggers, lastTrigger>>
    /\ UNCHANGED textVars
    /\ UNCHANGED timeVars

\* React commits the pending state updates
Render ==
    /\ rendered # HookState(email, isValid, isAdding, showEmailInput)
    /\ rendered' = HookState(email, isValid, isAdding, showEmailInput)
    /\ UNCHANGED <<component, events, localStorage, mounted, email, isValid, isAdding,
                   showEmailInput, pc, dispatchEmail, calls, reports, uncaught,
                   triggers, lastTrigger>>
    /\ UNCHANGED textVars
    /\ UNCHANGED timeVars

\* onClick={() => setShowBulkEmailInput(true)}
ShowInput ==
    /\ UiShown
    /\ ~rendered.showEmailInput
    /\ showEmailInput' = TRUE
    /\ UNCHANGED <<component, events, localStorage, mounted, email, isValid, isAdding,
                   pc, dispatchEmail, calls, reports, uncaught, triggers, lastTrigger>>
    /\ Commit({"showEmailInput"})
    /\ UNCHANGED textVars
    /\ UNCHANGED timeVars

\* onClick={() => setShowBulkEmailInput(false)}
HideInput ==
    /\ UiShown
    /\ rendered.showEmailInput
    /\ showEmailInput' = FALSE
    /\ UNCHANGED <<component, events, localStorage, mounted, email, isValid, isAdding,
                   pc, dispatchEmail, calls, reports, uncaught, triggers, lastTrigger>>
    /\ Commit({"showEmailInput"})
    /\ UNCHANGED textVars
    /\ UNCHANGED timeVars

handleEmailChange(value) ==
    /\ UiShown
    /\ rendered.showEmailInput
    /\ email' = value
    /\ isValid' = validateEmail(value)
    /\ localStorage' = IF validateEmail(value) THEN value ELSE localStorage
    /\ UNCHANGED <<component, events, mounted, isAdding, showEmailInput,
                   pc, dispatchEmail, calls, reports, uncaught, triggers, lastTrigger>>
    /\ Commit({"email", "isValid"})
    /\ UNCHANGED textVars
    /\ UNCHANGED timeVars

\* the part of both handlers before the await
StartDispatch(returns) ==
    /\ UiShown
    /\ rendered.showEmailInput
    /\ triggers < MaxTriggers
    /\ triggers' = triggers + 1
    /\ UNCHANGED <<component, events, localStorage, mounted, email, isValid,
                   showEmailInput, uncaught>>
    /\ IF returns
       THEN /\ lastTrigger' = "noop"
            /\ UNCHANGED <<isAdding, pc, dispatchEmail, calls, reports, rendered>>
       ELSE /\ lastTrigger' = "accepted"
            /\ reports' = <<>>
            /\ isAdding' = TRUE
            /\ pc' = "awaiting"
            /\ dispatchEmail' = rendered.email
            /\ calls' = IssueCalls(NumCalls)
            /\ Commit({"isAdding"})
    /\ UNCHANGED textVars
    /\ UNCHANGED timeVars

handleAddAllToCalendar ==
    /\ component = Renderer
    /\ StartDispatch(BulkGuardReturns(rendered, events))

handleAddToCalendar ==
    /\ component = Button
    /\ StartDispatch(SingleGuardReturns(rendered))

\* one fetch promise settles
Settle(i, st, ok) ==
    /\ pc = "awaiting"
    /\ i \in DOMAIN calls
    /\ calls[i].status = "pending"
    /\ calls' = [calls EXCEPT ![i] = SettleCall(@, st, ok)]
    /\ UNCHANGED <<component, events, localStorage, mounted, email, isValid, isAdding,
                   showEmailInput, rendered, pc, dispatchEmail, reports, uncaught,
                   triggers, lastTrigger>>
    /\ UNCHANGED textVars
    /\ UNCHANGED timeVars

\* the continuation of a handler after its await
FinishNoReset(done) ==
    /\ reports' = Append(reports, done.report)
    /\ showEmailInput' = IF done.hide THEN FALSE ELSE showEmailInput
    /\ uncaught' = (uncaught \/ done.escaped)
    /\ isAdding' = isAdding
    /\ pc' = "idle"
    /\ UNCHANGED <<component, events, localStorage, mounted, email, isValid, rendered,
                   dispatchEmail, calls, triggers, lastTrigger>>
    /\ UNCHANGED textVars
    /\ UNCHANGED timeVars

Finish(done) ==
    /\ reports' = Append(reports, done.report)
    /\ showEmailInput' = IF done.hide THEN FALSE ELSE showEmailInput
    /\ uncaught' = (uncaught \/ done.escaped)
    /\ isAdding' = FALSE
    /\ pc' = "idle"
    /\ UNCHANGED <<component, events, localStorage, mounted, email, isValid, rendered,
                   dispatchEmail, calls, triggers, lastTrigger>>
    /\ UNCHANGED textVars
    /\ UNCHANGED timeVars

ResumeBulk ==
    /\ component = Renderer
    /\ pc = "awaiting"
    /\ AllSettled(calls)
    /\ Finish(BulkCompletion(calls, dispatchEmail))

ResumeSingle ==
    /\ component = Button
    /\ pc = "awaiting"
    /\ calls[1].status # "pending"
    /\ Finish(SingleCompletion(calls[1], dispatchEmail))

TimeIdle ==
    /\ dateStr = <<>>
    /\ timeStr = <<>>
    /\ today = [year |-> 2026, month |-> 1, day |-> 1]
    /\ timeOp = "none"
    /\ instant = <<>>

TextIdle ==
    /\ content = <<>>
    /\ textOp = "none"
    /\ stripped = <<>>
    /\ strippedTwice = <<>>
    /\ parsed = <<>>

Init ==
    /\ component \in {Renderer, Button}
    /\ events \in 1..MaxEvents
    /\ component = Button => events = 1
    /\ localStorage \in StoredEmails
    /\ mounted = FALSE
    /\ email = <<>>
    /\ isValid = FALSE
    /\ isAdding = FALSE
    /\ showEmailInput = FALSE
    /\ rendered = HookState(<<>>, FALSE, FALSE, FALSE)
    /\ pc = "idle"
    /\ dispatchEmail = <<>>
    /\ calls = <<>>
    /\ reports = <<>>
    /\ uncaught = FALSE
    /\ triggers = 0
    /\ lastTrigger = "none"
    /\ TextIdle
    /\ TimeIdle

Next ==
    \/ Mount
    \/ Render
    \/ ShowInput
    \/ HideInput
    \/ \E value \in TypedEmails : handleEmailChange(value)
    \/ handleAddAllToCalendar
    \/ handleAddToCalendar
    \/ \E i \in 1..MaxEvents : Settle(i, "fulfilled", TRUE)
    \/ \E i \in 1..MaxEvents : Settle(i, "fulfilled", FALSE)
    \/ \E i \in 1..MaxEvents : Settle(i, "rejected", FALSE)
    \/ ResumeBulk
    \/ ResumeSingle

Spec == Init /\ [][Next]_vars

----------------------------------------------------------------------------
(* Text functions of utils/parseEvents, on sequences of characters *)

\* the literals of /---EVENTS?---([\s\S]*?)---END-EVENTS?---/g
StartSingular == <<"-", "-", "-", "E", "V", "E", "N", "T", "-", "-", "-">>
StartPlural == <<"-", "-", "-", "E", "V", "E", "N", "T", "S", "-", "-", "-">>
EndSingular == <<"-", "-", "-", "E", "N", "D", "-", "E", "V", "E", "N", "T", "-", "-", "-">>
EndPlural == <<"-", "-", "-", "E", "N", "D", "-", "E", "V", "E", "N", "T", "S", "-", "-", "-">>

\* the literal of /(?=title:)/g
TitleMarker == <<"t", "i", "t", "l", "e", ":">>

\* the field names given to extractField
FieldTitle == <<"t", "i", "t", "l", "e">>
FieldDate == <<"d", "a", "t", "e">>
FieldTime == <<"t", "i", "m", "e">>
FieldLocation == <<"l", "o", "c", "a", "t", "i", "o", "n">>
FieldDescription == <<"d", "e", "s", "c", "r", "i", "p", "t", "i", "o", "n">>
FieldOriginalLink == <<"o", "r", "i", "g", "i", "n", "a", "l", "L", "i", "n", "k">>

\* case folding of the 'i' flag, on the letters A-Z
LowerOf == [A |-> "a", B |-> "b", C |-> "c", D |-> "d", E |-> "e", F |-> "f", G |-> "g", H |-> "h", I |-> "i", J |-> "j", K |-> "k", L |-> "l", M |-> "m", N |-> "n", O |-> "o", P |-> "p", Q |-> "q", R |-> "r", S |-> "s", T |-> "t", U |-> "u", V |-> "v", W |-> "w", X |-> "x", Y |-> "y", Z |-> "z"]
Lower(c) == IF c \in DOMAIN LowerOf THEN LowerOf[c] ELSE c

MinOf(S) == CHOOSE x \in S : \A y \in S : x <= y

\* lit occurs in s at position p
MatchAt(s, p, lit) ==
    /\ p >= 1
    /\ p + Len(lit) - 1 <= Len(s)
    /\ \A k \in 1..Len(lit) : s[p + k - 1] = lit[k]

\* lit occurs in s at position p, letter case ignored
MatchAtIgnoreCase(s, p, lit) ==
    /\ p >= 1
    /\ p + Len(lit) - 1 <= Len(s)
    /\ \A k \in 1..Len(lit) : Lower(s[p + k - 1]) = Lower(lit[k])

\* length of ---EVENTS?--- matched at p (0: no match)
StartLen(s, p) ==
    IF MatchAt(s, p, StartPlural) THEN Len(StartPlural)
    ELSE IF MatchAt(s, p, StartSingular) THEN Len(StartSingular)
    ELSE 0

\* length of ---END-EVENTS?--- matched at p (0: no match)
EndLen(s, p) ==
    IF MatchAt(s, p, EndPlural) THEN Len(EndPlural)
    ELSE IF MatchAt(s, p, EndSingular) THEN Len(EndSingular)
    ELSE 0

NoBlock == [start |-> 0, open |-> 0, close |-> 0, stop |-> 0]

\* the leftmost match of the block regex at or after position from: the first
\* start marker, then (lazily) the first end marker after it
NextBlock(s, from) ==
    LET starts == {p \in from..Len(s) : StartLen(s, p) > 0}
    IN  IF starts = {} THEN NoBlock
        ELSE LET p == MinOf(starts)
                 ends == {q \in (p + StartLen(s, p))..Len(s) : EndLen(s, q) > 0}
             IN  IF ends = {} THEN NoBlock
                 ELSE LET q == MinOf(ends)
                      IN  [start |-> p, open |-> p + StartLen(s, p),
                           close |-> q, stop |-> q + EndLen(s, q)]

\* all matches of the global regex, left to right (lastIndex moves to the match end)
RECURSIVE BlocksFrom(_, _)
BlocksFrom(s, from) ==
    LET b == NextBlock(s, from)
    IN  IF b = NoBlock THEN <<>> ELSE <<b>> \o BlocksFrom(s, b.stop)

RECURSIVE StripFrom(_, _)
StripFrom(s, from) ==
    LET b == NextBlock(s, from)
    IN  IF b = NoBlock THEN SubSeq(s, from, Len(s))
        ELSE SubSeq(s, from, b.start - 1) \o StripFrom(s, b.stop)

\* content.replace(/---EVENTS?---[\s\S]*?---END-EVENTS?---/g, '')
stripEventBlocks(text) == StripFrom(text, 1)

\* String.prototype.trim
Trim(s) ==
    LET keep == {k \in 1..Len(s) : s[k] \notin Whitespace}
    IN  IF keep = {} THEN <<>>
        ELSE SubSeq(s, MinOf(keep), CHOOSE x \in keep : \A y \in keep : y <= x)

\* eventsBlock.split(/(?=title:)/g): cut before every "title:" that is not at the start
RECURSIVE SplitFrom(_, _)
SplitFrom(d, p) ==
    LET cuts == {q \in (p + 1)..Len(d) : MatchAt(d, q, TitleMarker)}
    IN  IF cuts = {} THEN <<SubSeq(d, p, Len(d))>>
        ELSE <<SubSeq(d, p, MinOf(cuts) - 1)>> \o SplitFrom(d, MinOf(cuts))

\* .filter((entry) => entry.trim())
eventEntries(eventsBlock) ==
    SelectSeq(SplitFrom(eventsBlock, 1), LAMBDA entry : Trim(entry) # <<>>)

\* data.match(new RegExp(`${field}:\\s*(.*)`, 'i')): the leftmost occurrence of
\* "field:" in any letter case, then all whitespace (line breaks included), then
\* the rest of that line; trimmed; '' without a match
extractField(data, field) ==
    LET name == field \o <<":">>
        hits == {p \in 1..Len(data) : MatchAtIgnoreCase(data, p, name)}
    IN  IF hits = {} THEN <<>>
        ELSE LET after == MinOf(hits) + Len(name)
                 solid == {k \in after..Len(data) : data[k] \notin Whitespace}
                 from == IF solid = {} THEN Len(data) + 1 ELSE MinOf(solid)
                 breaks == {k \in from..Len(data) : data[k] \in LineTerminators}
                 to == IF breaks = {} THEN Len(data) ELSE MinOf(breaks) - 1
             IN  Trim(SubSeq(data, from, to))

ParsedEvent(eventData) ==
    [title |-> extractField(eventData, FieldTitle),
     date |-> extractField(eventData, FieldDate),
     time |-> extractField(eventData, FieldTime),
     location |-> extractField(eventData, FieldLocation),
     description |-> extractField(eventData, FieldDescription),
     originalLink |-> extractField(eventData, FieldOriginalLink)]

\* if (event.title && event.date && event.time) events.push(event)
Retained(event) == event.title # <<>> /\ event.date # <<>> /\ event.time # <<>>

RECURSIVE EventsOfEntries(_)
EventsOfEntries(entries) ==
    IF entries = <<>> THEN <<>>
    ELSE (IF Retained(ParsedEvent(Head(entries))) THEN <<ParsedEvent(Head(entries))>> ELSE <<>>)
         \o EventsOfEntries(Tail(entries))

RECURSIVE EventsOfBlocks(_, _)
EventsOfBlocks(text, blocks) ==
    IF blocks = <<>> THEN <<>>
    ELSE EventsOfEntries(eventEntries(SubSeq(text, Head(blocks).open, Head(blocks).close - 1)))
         \o EventsOfBlocks(text, Tail(blocks))

parseEventsFromContent(text) == EventsOfBlocks(text, BlocksFrom(text, 1))

----------------------------------------------------------------------------
(* Claims about the dispatch *)

\* number of calls of the dispatch that got a 2xx response
Ok2xx(cs) == Cardinality({i \in DOMAIN cs : cs[i].status = "fulfilled" /\ cs[i].ok})
Rejected(cs) == Cardinality({i \in DOMAIN cs : cs[i].status = "rejected"})

BulkDone == component = Renderer /\ pc = "idle" /\ calls # <<>>
SingleDone == component = Button /\ pc = "idle" /\ calls # <<>>

\* what changes when a handler invocation is a silent no-op: nothing but its count
NoOpStep ==
    UNCHANGED <<component, events, localStorage, mounted, email, isValid, isAdding,
                showEmailInput, rendered, pc, dispatchEmail, calls, reports, uncaught>>

\* C1: a finished bulk dispatch in which k > 0 sends got a 2xx response (every
\* other response and every transport error being a failure) reports success
\* with the message "k calendar invite(s) sent to <email>!".
C1_SucceededCountIs2xxCount ==
    (BulkDone /\ Ok2xx(calls) > 0) =>
        reports = <<[success |-> TRUE,
                     message |-> [n |-> Ok2xx(calls),
                                  text |-> IF Ok2xx(calls) > 1
                                           THEN "calendar invites sent to"
                                           ELSE "calendar invite sent to",
                                  to |-> dispatchEmail]]>>

\* C2: a finished bulk dispatch in which every send failed (non-2xx response or
\* transport error) reports exactly one outcome, the generic failure.
C2_AllFailedReportsFailure ==
    (BulkDone /\ Ok2xx(calls) = 0) =>
        reports = <<[success |-> FALSE, message |-> BulkFailureMessage]>>

\* C3: full settle: while the bulk handler awaits, every one of the N calls has
\* been issued and each pending call can still complete whatever the others
\* did; an outcome is reported only once no call is pending.
C3_FullSettle ==
    component = Renderer =>
        /\ pc = "awaiting" =>
              /\ Len(calls) = events
              /\ reports = <<>>
              /\ \A i \in DOMAIN calls :
                    calls[i].status = "pending" =>
                        /\ ENABLED Settle(i, "fulfilled", TRUE)
                        /\ ENABLED Settle(i, "rejected", FALSE)
        /\ reports # <<>> =>
              /\ Len(calls) = events
              /\ \A i \in DOMAIN calls : calls[i].status # "pending"

C3_Witness ==
    /\ component = Renderer
    /\ pc = "awaiting"
    /\ events = 3
    /\ calls[2].status = "rejected"
    /\ calls[1].status = "pending"
    /\ calls[3].status = "fulfilled"

\* C4: a handler invocation while the current email does not match the validity
\* pattern issues no send, reports nothing and changes no component state.
C4_InvalidEmailNoOp ==
    [][(triggers' # triggers /\ ~validateEmail(email)) => NoOpStep]_vars

C4_Witness ==
    /\ lastTrigger = "noop"
    /\ triggers = 1
    /\ email = NoDotEmail
    /\ rendered.email = NoDotEmail
    /\ calls = <<>>
    /\ reports = <<>>
    /\ ~isAdding

\* C5: a handler invocation while an earlier dispatch has not finished issues
\* no send, reports nothing and changes no component state.
C5_NoOverlappingDispatch ==
    [][(triggers' # triggers /\ pc = "awaiting") => NoOpStep]_vars

C5_Witness ==
    /\ pc = "awaiting"
    /\ lastTrigger = "noop"
    /\ triggers = 2
    /\ rendered.isValid
    /\ rendered.email = dispatchEmail
    /\ \E i \in DOMAIN calls : calls[i].status = "pending"

\* C6: an accepted dispatch issues exactly one send per event (one for a single
\* item), never a second one for a failed call, and the bulk tally counts every
\* call once: the calls counted as sent and the rejected ones add up to N.
C6_NoRetries ==
    calls # <<>> =>
        /\ Len(calls) = NumCalls
        /\ \A i \in DOMAIN calls : calls[i].sends = 1
        /\ Len(reports) <= 1
        /\ (component = Renderer /\ reports # <<>> /\ reports[1].success) =>
              reports[1].message.n + Rejected(calls) = events

C6_Witness ==
    /\ BulkDone
    /\ events = 3
    /\ Rejected(calls) = 1
    /\ reports # <<>>
    /\ reports[1].success
    /\ reports[1].message.n = 2

\* C7: a finished single-item dispatch has reported exactly one outcome: success
\* with "Calendar invite sent to {email}!" iff the send got a 2xx response, the
\* generic failure otherwise; no exception left the handler, and nothing is
\* reported before the send settles.
C7_SingleOutcome ==
    component = Button =>
        /\ ~uncaught
        /\ pc = "awaiting" => reports = <<>>
        /\ SingleDone =>
              reports = <<IF calls[1].status = "fulfilled" /\ calls[1].ok
                          THEN [success |-> TRUE,
                                message |-> [n |-> 0, text |-> "Calendar invite sent to",
                                             to |-> dispatchEmail]]
                          ELSE [success |-> FALSE, message |-> SingleFailureMessage]>>

C7_Witness ==
    /\ SingleDone
    /\ calls[1].status = "fulfilled"
    /\ ~calls[1].ok
    /\ reports = <<[success |-> FALSE, message |-> SingleFailureMessage]>>
    /\ dispatchEmail = OtherEmail

----------------------------------------------------------------------------
(* The text functions applied to generated texts *)

MaxFragments == 5
MaxLines == 3

\* pieces of text around and inside the markers
HalfStartLeft == <<"-", "-", "-", "E", "V", "E">>
HalfStartRight == <<"N", "T", "-", "-", "-">>
PlainText == <<"x">>
StripFragments == {HalfStartLeft, HalfStartRight, StartSingular, EndPlural, PlainText}

\* lines an event block may hold
LineTitle == <<"t", "i", "t", "l", "e", ":", " ", "A", "\n">>
LineTitleUpper == <<"T", "i", "t", "l", "e", ":", " ", "B", " ", "\n">>
LineTitleEmpty == <<"t", "i", "t", "l", "e", ":", "\n">>
LineTitleDue == <<"t", "i", "t", "l", "e", ":", " ", "D", "u", "e", " ", "d", "a", "t", "e", ":", " ", "X", "\n">>
LineDate == <<"d", "a", "t", "e", ":", " ", "1", "/", "2", "\n">>
LineDateEmpty == <<"d", "a", "t", "e", ":", "\n">>
LineTime == <<"t", "i", "m", "e", ":", " ", "9", ":", "0", "0", "\n">>
LineTimeUpper == <<"T", "I", "M", "E", ":", " ", " ", "8", " ", "P", "M", "\n">>
LineLocation == <<"l", "o", "c", "a", "t", "i", "o", "n", ":", " ", "L", "\n">>
LineDescription == <<"d", "e", "s", "c", "r", "i", "p", "t", "i", "o", "n", ":", " ", "d", "\n">>
LineOriginalLink == <<"o", "r", "i", "g", "i", "n", "a", "l", "L", "i", "n", "k", ":", " ", "u", "\n">>
BlockLines == {LineTitle, LineTitleUpper, LineTitleEmpty, LineTitleDue, LineDate,
               LineDateEmpty, LineTime, LineTimeUpper, LineLocation, LineDescription,
               LineOriginalLink}

\* the concatenations of at most n of the given pieces
RECURSIVE Concats(_, _)
Concats(pieces, n) ==
    IF n = 0 THEN {<<>>}
    ELSE Concats(pieces, n - 1)
         \cup {p \o c : p \in pieces, c \in Concats(pieces, n - 1)}

StripInputs == Concats(StripFragments, MaxFragments)

\* texts holding one complete block
ParseInputs ==
    {PlainText \o open \o <<"\n">> \o body \o close \o PlainText :
        open \in {StartSingular, StartPlural},
        close \in {EndSingular, EndPlural},
        body \in Concats(BlockLines, MaxLines)}

DispatchIdle ==
    /\ component = Renderer
    /\ events = 1
    /\ localStorage = NoEmail
    /\ mounted = FALSE
    /\ email = <<>>
    /\ isValid = FALSE
    /\ isAdding = FALSE
    /\ showEmailInput = FALSE
    /\ rendered = HookState(<<>>, FALSE, FALSE, FALSE)
    /\ pc = "idle"
    /\ dispatchEmail = <<>>
    /\ calls = <<>>
    /\ reports = <<>>
    /\ uncaught = FALSE
    /\ triggers = 0
    /\ lastTrigger = "none"

TextInit ==
    /\ content \in StripInputs \cup ParseInputs
    /\ textOp = "none"
    /\ stripped = <<>>
    /\ strippedTwice = <<>>
    /\ parsed = <<>>
    /\ DispatchIdle
    /\ TimeIdle

Strip ==
    /\ textOp = "none"
    /\ stripped' = stripEventBlocks(content)
    /\ textOp' = "strip"
    /\ UNCHANGED <<content, strippedTwice, parsed>>
    /\ UNCHANGED dispatchVars
    /\ UNCHANGED timeVars

StripAgain ==
    /\ textOp = "strip"
    /\ strippedTwice' = stripEventBlocks(stripped)
    /\ textOp' = "stripTwice"
    /\ UNCHANGED <<content, stripped, parsed>>
    /\ UNCHANGED dispatchVars
    /\ UNCHANGED timeVars

Parse ==
    /\ textOp = "none"
    /\ parsed' = parseEventsFromContent(content)
    /\ textOp' = "parse"
    /\ UNCHANGED <<content, stripped, strippedTwice>>
    /\ UNCHANGED dispatchVars
    /\ UNCHANGED timeVars

TextNext ==
    \/ Strip
    \/ StripAgain
    \/ Parse

TextSpec == TextInit /\ [][TextNext]_vars

----------------------------------------------------------------------------
(* Claims about the text functions *)

Range(f) == {f[i] : i \in DOMAIN f}

\* the positions of text inside a delimited block, markers included
BlockPositions(text) == UNION {b.start..(b.stop - 1) : b \in Range(BlocksFrom(text, 1))}

\* text without the characters at the positions in cut
Without(text, cut) ==
    LET keep == (1..Len(text)) \ cut
    IN  [i \in 1..Cardinality(keep) |->
            text[CHOOSE p \in keep : Cardinality({q \in keep : q <= p}) = i]]

\* the line-oriented reading of a block: its lines
RECURSIVE LinesOf(_)
LinesOf(d) ==
    LET breaks == {k \in 1..Len(d) : d[k] \in LineTerminators}
    IN  IF breaks = {} THEN <<d>>
        ELSE <<SubSeq(d, 1, MinOf(breaks) - 1)>> \o LinesOf(SubSeq(d, MinOf(breaks) + 1, Len(d)))

\* the lines of a block that start with "field:" in any letter case
FieldLines(d, field) ==
    SelectSeq(LinesOf(d), LAMBDA l : MatchAtIgnoreCase(Trim(l), 1, field \o <<":">>))

\* the value of such a line: the text after the colon, trimmed
LineValue(l, field) == Trim(SubSeq(Trim(l), Len(field) + 2, Len(Trim(l))))

FieldValues(d, field) == {LineValue(l, field) : l \in Range(FieldLines(d, field))}

BlockTexts(text) ==
    {SubSeq(text, b.open, b.close - 1) : b \in Range(BlocksFrom(text, 1))}

RequiredFields == {FieldTitle, FieldDate, FieldTime}

\* a block with no title line, no date line or no time line of non-empty value
MissingRequired(d) == \E f \in RequiredFields : FieldValues(d, f) \ {<<>>} = {}

\* the value of the field's line, '' when the block has no such line
ValueOrEmpty(d, field) ==
    IF FieldLines(d, field) = <<>> THEN <<>> ELSE LineValue(FieldLines(d, field)[1], field)

\* C8: stripEventBlocks removes exactly the delimited spans, leaves the rest
\* untouched, and a second application changes nothing.
C8_StripIdempotent ==
    /\ textOp \in {"strip", "stripTwice"} => stripped = Without(content, BlockPositions(content))
    /\ textOp = "stripTwice" => strippedTwice = stripped

\* C9: a text all of whose blocks miss a title, date or time line (absent or of
\* empty value) yields no record, and every record has a non-empty title, date
\* and time that are the values of one block's title, date and time lines.
C9_MissingRequiredYieldsNothing ==
    textOp = "parse" =>
        /\ (\A d \in BlockTexts(content) : MissingRequired(d)) => parsed = <<>>
        /\ \A r \in Range(parsed) :
              /\ Retained(r)
              /\ \E d \in BlockTexts(content) :
                    /\ r.title \in FieldValues(d, FieldTitle)
                    /\ r.date \in FieldValues(d, FieldDate)
                    /\ r.time \in FieldValues(d, FieldTime)

\* one block, holding one event: one title line, one date line, one time line,
\* each of non-empty value, and at most one line for each optional field
OneCompleteEvent(text) ==
    /\ Cardinality(BlockTexts(text)) = 1
    /\ Len(BlocksFrom(text, 1)) = 1
    /\ \A d \in BlockTexts(text) :
          /\ \A f \in RequiredFields : Len(FieldLines(d, f)) = 1 /\ ~MissingRequired(d)
          /\ \A f \in {FieldLocation, FieldDescription, FieldOriginalLink} :
                Len(FieldLines(d, f)) <= 1

\* C10: a text with exactly one complete block whose single event has the three
\* required fields yields exactly one record, whose six fields are the trimmed
\* texts after the field names on their lines ('' for an absent optional field).
C10_OneBlockOneRecord ==
    (textOp = "parse" /\ OneCompleteEvent(content)) =>
        \A d \in BlockTexts(content) :
            parsed = <<[title |-> ValueOrEmpty(d, FieldTitle),
                        date |-> ValueOrEmpty(d, FieldDate),
                        time |-> ValueOrEmpty(d, FieldTime),
                        location |-> ValueOrEmpty(d, FieldLocation),
                        description |-> ValueOrEmpty(d, FieldDescription),
                        originalLink |-> ValueOrEmpty(d, FieldOriginalLink)]>>

----------------------------------------------------------------------------
(* Date and time functions of the components, on sequences of characters *)

Digits == <<"0", "1", "2", "3", "4", "5", "6", "7", "8", "9">>
IsDigit(c) == \E k \in 1..Len(Digits) : Digits[k] = c
DigitValue(c) == (CHOOSE k \in 1..Len(Digits) : Digits[k] = c) - 1
IsLetter(c) == Lower(c) \in {LowerOf[u] : u \in DOMAIN LowerOf}

\* s[a..b] lies in s and holds digits only
DigitsAt(s, a, b) == a >= 1 /\ b <= Len(s) /\ \A k \in a..b : IsDigit(s[k])

\* parseInt of a string of digits
RECURSIVE parseInt(_)
parseInt(s) ==
    IF s = <<>> THEN 0
    ELSE parseInt(SubSeq(s, 1, Len(s) - 1)) * 10 + DigitValue(s[Len(s)])

\* String(n) of a natural number
RECURSIVE NumberToString(_)
NumberToString(n) ==
    IF n < 10 THEN <<Digits[n + 1]>>
    ELSE NumberToString(n \div 10) \o <<Digits[(n % 10) + 1]>>

\* s.padStart(2, '0')
PadStart(s) == IF Len(s) = 0 THEN <<"0", "0">> ELSE IF Len(s) = 1 THEN <<"0">> \o s ELSE s

\* a calendar date held by a Date object, in local time
CivilDate(y, m, d) == [year |-> y, month |-> m, day |-> d]
InvalidDate == [year |-> 0, month |-> 0, day |-> 0]

IsLeapYear(y) == (y % 4 = 0 /\ y % 100 # 0) \/ y % 400 = 0
DaysInMonth(y, m) ==
    IF m = 2 THEN (IF IsLeapYear(y) THEN 29 ELSE 28)
    ELSE IF m \in {4, 6, 9, 11} THEN 30 ELSE 31

\* MakeDay: a day number outside the month rolls into the neighbouring months
RECURSIVE RollDay(_, _, _)
RollDay(y, m, d) ==
    IF d < 1
    THEN (IF m = 1 THEN RollDay(y - 1, 12, d + 31)
          ELSE RollDay(y, m - 1, d + DaysInMonth(y, m - 1)))
    ELSE IF d > DaysInMonth(y, m)
    THEN (IF m = 12 THEN RollDay(y + 1, 1, d - 31)
          ELSE RollDay(y, m + 1, d - DaysInMonth(y, m)))
    ELSE CivilDate(y, m, d)

\* new Date(year, monthIndex, day): a year 0..99 means 1900 + year, and a month
\* index outside 0..11 rolls into the neighbouring years
NewDate(year, monthIndex, day) ==
    LET full == IF year >= 0 /\ year <= 99 THEN 1900 + year ELSE year
        y == IF monthIndex < 0 THEN full - 1 ELSE full + (monthIndex \div 12)
        m == IF monthIndex < 0 THEN 12 ELSE (monthIndex % 12) + 1
    IN  RollDay(y, m, day)

\* /^\d{4}-\d{2}-\d{2}$/
IsIsoDate(s) ==
    /\ Len(s) = 10
    /\ DigitsAt(s, 1, 4) /\ s[5] = "-" /\ DigitsAt(s, 6, 7) /\ s[8] = "-"
    /\ DigitsAt(s, 9, 10)

\* new Date(dateStr) for a string that is not YYYY-MM-DD: the engine's own
\* parser, here for "Month D, YYYY" and "M/D/YYYY" with a year of four digits
\* from 1000 on; anything else is an Invalid Date
MonthNames == <<<<"j", "a", "n">>, <<"f", "e", "b">>, <<"m", "a", "r">>, <<"a", "p", "r">>, <<"m", "a", "y">>, <<"j", "u", "n">>,
                <<"j", "u", "l">>, <<"a", "u", "g">>, <<"s", "e", "p">>, <<"o", "c", "t">>, <<"n", "o", "v">>, <<"d", "e", "c">>>>

MonthOfWord(w) ==
    LET hits == {k \in 1..12 : Len(w) >= 3 /\ MatchAtIgnoreCase(w, 1, MonthNames[k])}
    IN  IF hits = {} THEN 0 ELSE MinOf(hits)

\* the date of month m, day d, year y as the engine's parser accepts it
EngineDate(y, m, d) ==
    IF m \in 1..12 /\ d \in 1..31 /\ y >= 1000 THEN RollDay(y, m, d) ELSE InvalidDate

\* /^[A-Za-z]+ \d{1,2}, \d{4}$/
MonthNameDate(s) ==
    LET spaces == {k \in 1..Len(s) : s[k] = " "}
        sp == IF spaces = {} THEN 0 ELSE MinOf(spaces)
        commas == {k \in 1..Len(s) : s[k] = ","}
        cm == IF commas = {} THEN 0 ELSE MinOf(commas)
    IN  IF /\ sp > 1 /\ \A k \in 1..(sp - 1) : IsLetter(s[k])
           /\ cm \in {sp + 2, sp + 3} /\ DigitsAt(s, sp + 1, cm - 1)
           /\ Len(s) = cm + 5 /\ s[cm + 1] = " " /\ DigitsAt(s, cm + 2, cm + 5)
        THEN EngineDate(parseInt(SubSeq(s, cm + 2, cm + 5)),
                        MonthOfWord(SubSeq(s, 1, sp - 1)),
                        parseInt(SubSeq(s, sp + 1, cm - 1)))
        ELSE InvalidDate

\* /^\d{1,2}\/\d{1,2}\/\d{4}$/
SlashDate(s) ==
    LET slashes == {k \in 1..Len(s) : s[k] = "/"}
        a == IF slashes = {} THEN 0 ELSE MinOf(slashes)
        later == {k \in slashes : k > a}
        b == IF later = {} THEN 0 ELSE MinOf(later)
    IN  IF /\ a \in {2, 3} /\ DigitsAt(s, 1, a - 1)
           /\ b \in {a + 2, a + 3} /\ DigitsAt(s, a + 1, b - 1)
           /\ Len(s) = b + 4 /\ DigitsAt(s, b + 1, b + 4)
        THEN EngineDate(parseInt(SubSeq(s, b + 1, b + 4)),
                        parseInt(SubSeq(s, 1, a - 1)),
                        parseInt(SubSeq(s, a + 1, b - 1)))
        ELSE InvalidDate

\* parseDate: the date parsed, and now when it is an Invalid Date
parseDate(s, now) ==
    LET date == IF IsIsoDate(s)
                THEN NewDate(parseInt(SubSeq(s, 1, 4)), parseInt(SubSeq(s, 6, 7)) - 1,
                             parseInt(SubSeq(s, 9, 10)))
                ELSE IF MonthNameDate(s) # InvalidDate THEN MonthNameDate(s)
                ELSE SlashDate(s)
    IN  IF date = InvalidDate THEN now ELSE date

IsMeridiemAt(s, k) ==
    /\ k >= 1 /\ k + 1 <= Len(s)
    /\ Lower(s[k]) \in {"a", "p"}
    /\ Lower(s[k + 1]) = "m"

\* \d{n}:\d{2}\s*(AM|PM) matched at position p, flag 'i': the position of the
\* meridiem (0: no match)
MeridiemAfter(s, p, n) ==
    IF DigitsAt(s, p, p + n - 1) /\ p + n <= Len(s) /\ s[p + n] = ":"
       /\ DigitsAt(s, p + n + 1, p + n + 2)
    THEN LET solid == {k \in (p + n + 3)..Len(s) : s[k] \notin Whitespace}
         IN  IF solid # {} /\ IsMeridiemAt(s, MinOf(solid)) THEN MinOf(solid) ELSE 0
    ELSE 0

\* /^\d{1,2}:\d{2}\s*(AM|PM)$/i
IsTwelveHourTime(s) ==
    \E n \in {1, 2} : MeridiemAfter(s, 1, n) > 0 /\ MeridiemAfter(s, 1, n) + 1 = Len(s)

\* /^\d{1,2}:\d{2}$/
IsTwentyFourHourTime(s) ==
    \E n \in {1, 2} :
        DigitsAt(s, 1, n) /\ Len(s) = n + 3 /\ s[n + 1] = ":" /\ DigitsAt(s, n + 2, n + 3)

formatDisplayTime(s) ==
    IF IsTwelveHourTime(s) THEN s
    ELSE IF IsTwentyFourHourTime(s)
    THEN LET hours == SubSeq(s, 1, Len(s) - 3)
             minutes == SubSeq(s, Len(s) - 1, Len(s))
             hour24 == parseInt(hours)
             hour12 == IF hour24 = 0 THEN 12 ELSE IF hour24 > 12 THEN hour24 - 12 ELSE hour24
             ampm == IF hour24 < 12 THEN <<"A", "M">> ELSE <<"P", "M">>
         IN  NumberToString(hour12) \o <<":">> \o minutes \o <<" ">> \o ampm
    ELSE s

NoTimeMatch == [hours |-> <<>>, minutes |-> <<>>, ampm |-> <<>>]

\* normalizedTime.match(/(\d{1,2}):(\d{2})\s*(AM|PM)/i): the leftmost match,
\* two digits of hours before one
timeMatch(s) ==
    LET hits == {p \in 1..Len(s) : \E n \in {1, 2} : MeridiemAfter(s, p, n) > 0}
    IN  IF hits = {} THEN NoTimeMatch
        ELSE LET p == MinOf(hits)
                 n == IF MeridiemAfter(s, p, 2) > 0 THEN 2 ELSE 1
                 k == MeridiemAfter(s, p, n)
             IN  [hours |-> SubSeq(s, p, p + n - 1),
                  minutes |-> SubSeq(s, p + n + 1, p + n + 2),
                  ampm |-> <<(IF Lower(s[k]) = "a" THEN "A" ELSE "P"), "M">>]

\* if (ampm === 'PM' && hours !== 12) hours += 12;
\* if (ampm === 'AM' && hours === 12) hours = 0;
MeridiemHoursNoMidnight(hours, ampm) ==
    IF ampm = <<"P", "M">> /\ hours # 12 THEN hours + 12 ELSE hours

MeridiemHours(hours, ampm) ==
    IF ampm = <<"P", "M">> /\ hours # 12 THEN hours + 12
    ELSE IF ampm = <<"A", "M">> /\ hours = 12 THEN 0
    ELSE hours

FixedOffset == <<"-", "0", "6", ":", "0", "0">>

formatDateTime(date, time, now) ==
    LET parsedDate == parseDate(date, now)
        year == NumberToString(parsedDate.year)
        month == PadStart(NumberToString(parsedDate.month))
        day == PadStart(NumberToString(parsedDate.day))
        found == timeMatch(formatDisplayTime(time))
    IN  IF found = NoTimeMatch
        THEN year \o <<"-">> \o month \o <<"-">> \o day \o <<"T", "1", "2", ":", "0", "0", ":", "0", "0">> \o FixedOffset
        ELSE year \o <<"-">> \o month \o <<"-">> \o day \o <<"T">>
             \o PadStart(NumberToString(MeridiemHours(parseInt(found.hours), found.ampm)))
             \o <<":">> \o found.minutes \o <<":", "0", "0">> \o FixedOffset

----------------------------------------------------------------------------
(* The date and time functions applied to bounded inputs *)

Hours == 0..23
Minutes == 0..59

TwoDigits(n) == <<Digits[(n \div 10) + 1], Digits[(n % 10) + 1]>>

\* "H:MM" on the 24-hour clock
Time24(h, m) == (IF h < 10 THEN <<Digits[h + 1]>> ELSE TwoDigits(h)) \o <<":">> \o TwoDigits(m)

\* "HH:MM" on the 24-hour clock
Time24Padded(h, m) == TwoDigits(h) \o <<":">> \o TwoDigits(m)

\* the hour of the 12-hour clock at hour h of the day
ClockHour(h) == IF h % 12 = 0 THEN 12 ELSE h % 12

\* "H:MM AM" or "H:MM PM": the 12-hour equivalent of Time24(h, m)
Time12(h, m) ==
    (IF ClockHour(h) < 10 THEN <<Digits[ClockHour(h) + 1]>> ELSE TwoDigits(ClockHour(h)))
    \o <<":">> \o TwoDigits(m) \o <<" ">> \o (IF h < 12 THEN <<"A", "M">> ELSE <<"P", "M">>)

\* 12-hour times written otherwise: lower case, no space, two spaces
LooseTimes == {<<"2", ":", "3", "0", "p", "m">>, <<"2", ":", "3", "0", " ", " ", "P", "M">>, <<"1", "2", ":", "0", "0", "a", "m">>, <<"1", "1", ":", "5", "9", " ", "p", "M">>}

\* times that name no time of the day, or not in either shape
OddTimes ==
    {<<>>, <<"n", "o", "o", "n">>, <<"7", " ", "P", "M">>, <<"9", ":", "5">>, <<"1", "4", ":", "3", "0", ":", "0", "0">>, <<"2", "5", ":", "0", "0">>, <<"2", "4", ":", "0", "0">>, <<"9", "9", ":", "0", "0", " ", "P", "M">>,
     <<"1", "3", ":", "0", "0", " ", "P", "M">>, <<"0", ":", "3", "0", " ", "A", "M">>, <<"1", "2", ":", "6", "0", " ", "A", "M">>, <<"a", "t", " ", "1", "2", "3", ":", "4", "5", " ", "p", "m">>, <<"2", ":", "3", "0", " ", "P", "M", " ", "C", "S", "T">>, <<"2", ":", "3", "0", " ", "P", ".", "M", ".">>}

TimeInputs ==
    {Time24(h, m) : h \in Hours, m \in Minutes}
    \cup {Time24Padded(h, m) : h \in Hours, m \in Minutes}
    \cup {Time12(h, m) : h \in Hours, m \in Minutes}
    \cup LooseTimes \cup OddTimes

\* YYYY-MM-DD dates of the calendar
CalendarDates == {<<"2", "0", "2", "5", "-", "0", "3", "-", "0", "5">>, <<"2", "0", "2", "5", "-", "0", "1", "-", "0", "1">>, <<"2", "0", "2", "4", "-", "0", "2", "-", "2", "9">>}

\* dates in the other accepted shapes
OtherShapeDates == {<<"M", "a", "r", "c", "h", " ", "5", ",", " ", "2", "0", "2", "5">>, <<"3", "/", "5", "/", "2", "0", "2", "5">>, <<"D", "e", "c", " ", "3", "1", ",", " ", "2", "0", "2", "4">>}

\* YYYY-MM-DD strings of no calendar date or of an early year, and strings
\* that are no date
OddDates ==
    {<<"2", "0", "2", "5", "-", "0", "2", "-", "3", "0">>, <<"2", "0", "2", "5", "-", "1", "3", "-", "4", "5">>, <<"2", "0", "2", "5", "-", "0", "0", "-", "0", "0">>, <<"0", "9", "9", "9", "-", "0", "1", "-", "0", "1">>, <<"0", "0", "5", "0", "-", "0", "6", "-", "1", "5">>,
     <<"1", "3", "/", "4", "5", "/", "2", "0", "2", "5">>, <<"t", "o", "m", "o", "r", "r", "o", "w">>, <<>>}

DateInputs == CalendarDates \cup OtherShapeDates \cup OddDates

\* the days on which the component may run
Todays == {CivilDate(2026, 11, 4), CivilDate(2024, 2, 29)}

TimeInit ==
    /\ dateStr \in DateInputs
    /\ timeStr \in TimeInputs
    /\ today \in Todays
    /\ timeOp = "none"
    /\ instant = <<>>
    /\ DispatchIdle
    /\ TextIdle

FormatDateTime ==
    /\ timeOp = "none"
    /\ instant' = formatDateTime(dateStr, timeStr, today)
    /\ timeOp' = "format"
    /\ UNCHANGED <<dateStr, timeStr, today>>
    /\ UNCHANGED dispatchVars
    /\ UNCHANGED textVars

TimeNext == FormatDateTime

TimeSpec == TimeInit /\ [][TimeNext]_vars

----------------------------------------------------------------------------
(* Claims about the date and time functions *)

Formatted == timeOp = "format"

\* C11: on a YYYY-MM-DD date of the calendar, formatDateTime gives for the
\* 24-hour time "H:MM" and for its 12-hour AM/PM equivalent the same string:
\* the date, "T", the hour H of the day in two digits, the minutes, ":00" and
\* the fixed offset, for every H in 0..23 and MM in 00..59
C11_SameInstantFor24And12Hour ==
    (Formatted /\ dateStr \in CalendarDates) =>
        \A h \in Hours, m \in Minutes :
            timeStr \in {Time24(h, m), Time24Padded(h, m), Time12(h, m)} =>
                instant = dateStr \o <<"T">> \o TwoDigits(h) \o <<":">> \o TwoDigits(m)
                          \o <<":", "0", "0", "-", "0", "6", ":", "0", "0">>

C11_Witness ==
    /\ Formatted
    /\ dateStr = <<"2", "0", "2", "5", "-", "0", "3", "-", "0", "5">>
    /\ timeStr = <<"2", ":", "3", "0", " ", "P", "M">>
    /\ instant = <<"2", "0", "2", "5", "-", "0", "3", "-", "0", "5", "T", "1", "4", ":", "3", "0", ":", "0", "0", "-", "0", "6", ":", "0", "0">>

\* YYYY-MM-DDTHH:MM:SS and the fixed offset: four digits of year, two digits
\* of month, day, hour, minute and second
HasInstantShape(s) ==
    /\ Len(s) = 25
    /\ DigitsAt(s, 1, 4) /\ s[5] = "-" /\ DigitsAt(s, 6, 7) /\ s[8] = "-"
    /\ DigitsAt(s, 9, 10) /\ s[11] = "T"
    /\ DigitsAt(s, 12, 13) /\ s[14] = ":" /\ DigitsAt(s, 15, 16) /\ s[17] = ":"
    /\ DigitsAt(s, 18, 19)
    /\ SubSeq(s, 20, 25) = <<"-", "0", "6", ":", "0", "0">>

\* s holds hour:minute AM/PM somewhere: one or two digits, ":", two digits,
\* any white space, AM or PM in either case
HoldsClockTime(s) ==
    \E p \in 1..Len(s), n \in {1, 2}, w \in 0..Len(s) :
        /\ DigitsAt(s, p, p + n - 1)
        /\ p + n + 3 + w + 1 <= Len(s)
        /\ s[p + n] = ":"
        /\ DigitsAt(s, p + n + 1, p + n + 2)
        /\ \A k \in (p + n + 3)..(p + n + 2 + w) : s[k] \in Whitespace
        /\ s[p + n + 3 + w] \in {"a", "A", "p", "P"}
        /\ s[p + n + 4 + w] \in {"m", "M"}

\* the part of an instant between "T" and the offset
TimePart(s) ==
    LET ts == {k \in 1..Len(s) : s[k] = "T"}
    IN  IF ts = {} \/ Len(s) < 6 THEN <<>> ELSE SubSeq(s, MinOf(ts) + 1, Len(s) - 6)

\* C12: for every date and time, well-formed or not, formatDateTime returns
\* a string of the shape YYYY-MM-DDTHH:MM:SS-06:00 with a year of four digits
\* and month, day, hour, minute and second of two digits each; when the time,
\* as given or as turned into 12-hour form, holds no hour:minute AM/PM, the
\* time part is 12:00:00
C12_FixedShape ==
    Formatted =>
        /\ HasInstantShape(instant)
        /\ (~HoldsClockTime(timeStr) /\ ~IsTwentyFourHourTime(timeStr))
               => TimePart(instant) = <<"1", "2", ":", "0", "0", ":", "0", "0">>

----------------------------------------------------------------------------
(* Progress of a dispatch *)

\* Once the awaited promise has settled, the engine runs the continuation of
\* the handler from the microtask queue: a continuation that stays enabled is
\* taken.  A fetch may stay pending for ever: no fairness on Settle.
LiveSpec == Spec /\ WF_vars(ResumeBulk) /\ WF_vars(ResumeSingle)

Reported == pc = "idle" /\ Len(reports) = 1 /\ ~isAdding

\* C13: an accepted dispatch, single or bulk, whose send calls have all
\* settled leads to exactly one outcome reported through onAddToCalendar and
\* isAdding reset to false, whether the outcome is a success or a failure;
\* isAdding is true only while the dispatch waits for its send calls, and no
\* outcome is reported while it waits nor a second one afterwards
C13_SettledDispatchReportsAndResets ==
    /\ [](isAdding => pc = "awaiting")
    /\ [](pc = "awaiting" => reports = <<>>)
    /\ [](Len(reports) <= 1)
    /\ (pc = "awaiting" /\ AllSettled(calls)) ~> Reported

C13_Witness ==
    /\ Reported
    /\ component = Renderer
    /\ Len(calls) > 1
    /\ AllSettled(calls)
    /\ ~reports[1].success

====
